---- MODULE Spec2Model ----
(***************************************************************************)
(* Model of the technical-indicator engine of daily-financial-report       *)
(* (src/src/technical_analysis.py, class TechnicalAnalyzer), of the        *)
(* market-data provider's failure value (src/src/data_fetcher.py) and of   *)
(* the report job (src/cron_job.py).                                       *)
(*                                                                         *)
(* Numbers.  A float64 is modelled as one of                               *)
(*   NaN, +Inf, -Inf, or an exact finite number a + b*sqrt(r)              *)
(* with a, b rational and r a square-free integer (r = 1 when b = 0).      *)
(* The square root is needed by the rolling standard deviation only.       *)
(* IEEE-754 rules decide the non-finite cases (x/0, 0/0, Inf-Inf, every    *)
(* comparison with NaN false).  Rounding error of binary floating point    *)
(* and the sign of zero are not modelled: finite arithmetic is exact.      *)
(*                                                                         *)
(* Rows.  Python rows are numbered 0..n-1; the sequences here are          *)
(* numbered 1..n, so row i of the code is element i+1.                     *)
(***************************************************************************)
EXTENDS Integers, Sequences, FiniteSets, TLC

(***************************************************************************)
(* Integer helpers                                                         *)
(***************************************************************************)
Abs(x) == IF x < 0 THEN -x ELSE x

Sgn(x) == IF x > 0 THEN 1 ELSE IF x < 0 THEN -1 ELSE 0

Max2(x, y) == IF x >= y THEN x ELSE y

\* TLC evaluates the arguments of an operator when they are first used.
\* Strict(v, e) is e, with v evaluated first: the folds over the rows of a
\* series use it to evaluate their accumulator row by row.
Strict(v, e) == IF v = v THEN e ELSE e

RECURSIVE GCD(_, _)
GCD(x, y) == IF y = 0 THEN x ELSE GCD(y, x % y)

RECURSIVE Pow(_, _)
Pow(b, e) == IF e = 0 THEN 1 ELSE b * Pow(b, e - 1)

(***************************************************************************)
(* Square roots: sqrt(m) = s * sqrt(r) with m = s*s*r, r square-free.      *)
(* SquarePart(m, 2) is s.                                                  *)
(***************************************************************************)
RECURSIVE SquarePart(_, _)
SquarePart(m, f) ==
    IF f * f > m THEN 1
    ELSE IF m % (f * f) = 0 THEN f * SquarePart(m \div (f * f), f)
    ELSE SquarePart(m, f + 1)

(***************************************************************************)
(* float64 values.  A finite value is (p + q*sqrt(r))/d with integers      *)
(* p, q, d, r in normal form: d > 0, gcd(p, q, d) = 1, and r = 1 when      *)
(* q = 0.  An infinity carries its sign in p.                              *)
(***************************************************************************)
NaN == [k |-> "nan", p |-> 0, q |-> 0, r |-> 1, d |-> 1]

Inf(s) == [k |-> "inf", p |-> s, q |-> 0, r |-> 1, d |-> 1]

\* (p + q*sqrt(r))/d divided through by g, a common divisor of p, q, d that
\* has the sign of d
Reduced(p, q, r, d, g) ==
    [k |-> "fin", p |-> p \div g, q |-> q \div g,
     r |-> IF q = 0 THEN 1 ELSE r, d |-> d \div g]

\* the normal form of (p + q*sqrt(r))/d, d # 0
Fin(p, q, r, d) ==
    Reduced(p, q, r, d, Sgn(d) * GCD(GCD(Abs(p), Abs(q)), Abs(d)))

Fl(i) == [k |-> "fin", p |-> i, q |-> 0, r |-> 1, d |-> 1]

FlQ(n, d) == Fin(n, 0, 1, d)

IsNaN(x) == x.k = "nan"

IsFin(x) == x.k = "fin"

\* -1, 0, 1: the sign of a finite or infinite value, that of p + q*sqrt(r);
\* 0 for NaN
FSgn(x) ==
    IF x.q = 0 THEN Sgn(x.p)
    ELSE IF x.p = 0 \/ Sgn(x.p) = Sgn(x.q) THEN Sgn(x.q)
    ELSE Sgn(x.p) * Sgn(x.p * x.p - x.q * x.q * x.r)

\* the radicand two finite operands share; operands over different
\* radicands do not arise in this program and have no value here
Radicand(x, y) ==
    IF x.q = 0 THEN y.r
    ELSE IF y.q = 0 \/ y.r = x.r THEN x.r
    ELSE CHOOSE r \in {} : TRUE

FNeg(x) == [x EXCEPT !.p = -x.p, !.q = -x.q]

\* x + y for finite x and y, g the greatest common divisor of their
\* denominators
FinSum(x, y, g) ==
    Fin(x.p * (y.d \div g) + y.p * (x.d \div g),
        x.q * (y.d \div g) + y.q * (x.d \div g),
        Radicand(x, y), (x.d \div g) * y.d)

FAdd(x, y) ==
    IF x.k = "nan" \/ y.k = "nan" THEN NaN
    ELSE IF x.k = "inf" /\ y.k = "inf" THEN (IF x.p = y.p THEN x ELSE NaN)
    ELSE IF x.k = "inf" THEN x
    ELSE IF y.k = "inf" THEN y
    ELSE FinSum(x, y, GCD(x.d, y.d))

FSub(x, y) == FAdd(x, FNeg(y))

\* the infinity of sign s, NaN when s = 0
InfOrNaN(s) == IF s = 0 THEN NaN ELSE Inf(s)

\* x * y for finite x and y over the radicand r
FinProduct(x, y, r) ==
    Fin(x.p * y.p + x.q * y.q * r, x.p * y.q + x.q * y.p, r, x.d * y.d)

FMul(x, y) ==
    IF x.k = "nan" \/ y.k = "nan" THEN NaN
    ELSE IF x.k = "inf" \/ y.k = "inf"
         THEN InfOrNaN(FSgn(x) * FSgn(y))
    ELSE FinProduct(x, y, Radicand(x, y))

\* 1/x for a finite x # 0:
\* d/(p + q*sqrt(r)) = d*(p - q*sqrt(r)) / (p*p - q*q*r)
FinInv(x) ==
    IF x.q = 0 THEN Fin(x.d, 0, 1, x.p)
    ELSE Fin(x.d * x.p, -(x.d * x.q), x.r, x.p * x.p - x.q * x.q * x.r)

FDiv(x, y) ==
    IF x.k = "nan" \/ y.k = "nan" THEN NaN
    ELSE IF x.k = "inf" THEN
         (IF y.k = "inf" THEN NaN
          ELSE Inf(x.p * (IF FSgn(y) < 0 THEN -1 ELSE 1)))
    ELSE IF y.k = "inf" THEN Fl(0)
    ELSE IF FSgn(y) = 0 THEN InfOrNaN(FSgn(x))
    ELSE FinProduct(x, FinInv(y), Radicand(x, y))

\* comparisons: every comparison with NaN is false
FLt(x, y) == x.k # "nan" /\ y.k # "nan" /\ FSgn(FSub(x, y)) < 0

FGt(x, y) == FLt(y, x)

FAbs(x) == IF FSgn(x) < 0 THEN FNeg(x) ELSE x

\* sqrt(m)/d, where m = s*s*r with r square-free
SqrtOver(m, s, d) ==
    IF m = s * s THEN Fin(s, 0, 1, d) ELSE Fin(0, s, m \div (s * s), d)

\* sqrt of a float: NaN for NaN and negatives, exact for the rationals
FSqrt(x) ==
    IF x.k = "nan" THEN NaN
    ELSE IF x.k = "inf" THEN (IF x.p > 0 THEN x ELSE NaN)
    ELSE IF x.q # 0 THEN CHOOSE v \in {} : TRUE
    ELSE IF x.p < 0 THEN NaN
    ELSE IF x.p = 0 THEN x
    ELSE SqrtOver(x.p * x.d, SquarePart(x.p * x.d, 2), x.d)


(***************************************************************************)
(* Series (pandas.Series of float64): sequences of float values            *)
(***************************************************************************)
\* a function over 1..n as a tuple, its values evaluated
AsSeries(f) == SubSeq(f, 1, Len(f))

RECURSIVE FSumFrom(_, _, _, _)
FSumFrom(x, lo, hi, acc) ==
    IF lo > hi THEN acc
    ELSE Strict(acc, FSumFrom(x, lo + 1, hi, FAdd(acc, x[lo])))

\* x[1] + ... + x[Len(x)], added in row order
FSum(x) == FSumFrom(x, 1, Len(x), Fl(0))

\* the mean of the values of a non-empty x
FMean(x) == FDiv(FSum(x), Fl(Len(x)))

RECURSIVE FMinFrom(_, _, _, _)
FMinFrom(x, lo, hi, acc) ==
    IF lo > hi THEN acc
    ELSE Strict(acc, FMinFrom(x, lo + 1, hi, IF FLt(x[lo], acc) THEN x[lo] ELSE acc))

\* the least of the values of a non-empty x
FMin(x) == FMinFrom(x, 2, Len(x), x[1])

RECURSIVE FMaxFrom(_, _, _, _)
FMaxFrom(x, lo, hi, acc) ==
    IF lo > hi THEN acc
    ELSE Strict(acc, FMaxFrom(x, lo + 1, hi, IF FGt(x[lo], acc) THEN x[lo] ELSE acc))

\* the greatest of the values of a non-empty x
FMax(x) == FMaxFrom(x, 2, Len(x), x[1])

\* the values of x that are not NaN
DropNaN(x) == SelectSeq(x, LAMBDA v : ~IsNaN(v))

\* the non-NaN values of the window of w rows that ends at row i
Window(x, w, i) == DropNaN(SubSeq(x, Max2(1, i - w + 1), i))

\* the mean of a window's observations, NaN when they are fewer than minp
MeanOfObs(obs, minp) ==
    IF Len(obs) >= minp /\ Len(obs) > 0 THEN FMean(obs) ELSE NaN

\* Series.rolling(window=w, min_periods=minp).mean()
RollingMeanMinp(x, w, minp) ==
    [i \in 1..Len(x) |-> MeanOfObs(Window(x, w, i), minp)]

\* A faulty variant of rolling_mean: rolling(window=w, min_periods=1), which
\* averages the rows there are during the warm-up.  C9 does not hold of it.
rolling_mean_partial(x, w) == RollingMeanMinp(x, w, 1)

\* Series.rolling(window=w).mean(): min_periods defaults to the window
rolling_mean(x, w) == RollingMeanMinp(x, w, w)

MinOfObs(obs, minp) ==
    IF Len(obs) >= minp /\ Len(obs) > 0 THEN FMin(obs) ELSE NaN

\* Series.rolling(window=w, min_periods=minp).min()
rolling_min(x, w, minp) ==
    [i \in 1..Len(x) |-> MinOfObs(Window(x, w, i), minp)]

MaxOfObs(obs, minp) ==
    IF Len(obs) >= minp /\ Len(obs) > 0 THEN FMax(obs) ELSE NaN

\* Series.rolling(window=w, min_periods=minp).max()
rolling_max(x, w, minp) ==
    [i \in 1..Len(x) |-> MaxOfObs(Window(x, w, i), minp)]

\* (v - mean)^2
SqDev(v, mean) == FMul(FSub(v, mean), FSub(v, mean))

\* the squared deviations of the values from the given mean
SqDevs(vals, mean) == AsSeries([i \in 1..Len(vals) |-> SqDev(vals[i], mean)])

\* the sample standard deviation (ddof = 1) of a window's observations,
\* NaN when they are fewer than minp or fewer than two
StdOfObs(obs, minp) ==
    IF Len(obs) >= minp /\ Len(obs) > 1
    THEN FSqrt(FDiv(FSum(SqDevs(obs, FMean(obs))), Fl(Len(obs) - 1)))
    ELSE NaN

\* Series.rolling(window=w).std()
rolling_std(x, w) ==
    [i \in 1..Len(x) |-> StdOfObs(Window(x, w, i), w)]

\* A faulty variant of shift: Series.shift(-1), the next row's value, NaN at
\* the last row.  C28 does not hold of it.
shift_next(x) == [i \in 1..Len(x) |-> IF i = Len(x) THEN NaN ELSE x[i + 1]]

\* Series.shift(): the previous row's value, NaN at the first row
shift(x) == [i \in 1..Len(x) |-> IF i = 1 THEN NaN ELSE x[i - 1]]

\* Series.diff(): x[i] - x[i-1], NaN at the first row
diff(x) == [i \in 1..Len(x) |-> FSub(x[i], shift(x)[i])]

\* acc is the sum of the rows up to i, out the output of the rows before i
RECURSIVE CumSumFrom(_, _, _, _)
CumSumFrom(x, i, acc, out) ==
    Strict(acc, IF i >= Len(x) THEN Append(out, acc)
                ELSE CumSumFrom(x, i + 1, FAdd(acc, x[i + 1]), Append(out, acc)))

\* A faulty variant of cumsum: the steps themselves, never accumulated.
\* C14 does not hold of it.
cumsum_none(x) == x

\* numpy's cumsum of an array: the running sum, NaN once a NaN is met
cumsum(x) == IF x = <<>> THEN <<>> ELSE CumSumFrom(x, 1, x[1], <<>>)

\* the element-wise x - y of two series of the same rows
SeriesSub(x, y) == [i \in 1..Len(x) |-> FSub(x[i], y[i])]

(***************************************************************************)
(* Series.ewm(alpha=alpha, adjust=adjust).mean(), the loop of pandas'      *)
(* window aggregation with ignore_na = False and min_periods = 0 (so the   *)
(* output is NaN only before the first observation).                       *)
(* st.w is the running weighted average, st.old the weight it carries;     *)
(* old1 is that weight decayed by one row, new_wt the weight of the row.   *)
(***************************************************************************)
EwmUpdate(st, cur, old1, new_wt, adjust) ==
    IF ~IsNaN(st.w)
    THEN IF ~IsNaN(cur)
         THEN [w |-> IF st.w # cur
                     THEN FDiv(FAdd(FMul(old1, st.w), FMul(new_wt, cur)),
                               FAdd(old1, new_wt))
                     ELSE st.w,
               old |-> IF adjust THEN FAdd(old1, new_wt) ELSE Fl(1)]
         ELSE [w |-> st.w, old |-> old1]
    ELSE IF ~IsNaN(cur) THEN [w |-> cur, old |-> st.old]
    ELSE st

EwmStep(st, cur, alpha, adjust) ==
    EwmUpdate(st, cur, FMul(st.old, FSub(Fl(1), alpha)),
              IF adjust THEN Fl(1) ELSE alpha, adjust)

\* st is the state after row i, out the output of the rows before i
RECURSIVE EwmRun(_, _, _, _, _, _)
EwmRun(x, alpha, adjust, i, st, out) ==
    Strict(st, IF i >= Len(x) THEN Append(out, st.w)
               ELSE EwmRun(x, alpha, adjust, i + 1,
                           EwmStep(st, x[i + 1], alpha, adjust), Append(out, st.w)))

\* A faulty variant of ewm_mean: the loop run with adjust=True whatever the
\* caller asks, the weighted average of all history.  C10 does not hold of it.
ewm_mean_adjusted(x, alpha, adjust) ==
    IF x = <<>> THEN <<>>
    ELSE EwmRun(x, alpha, TRUE, 1, [w |-> x[1], old |-> Fl(1)], <<>>)

\* the loop starts from the first row: its average is the row's value
ewm_mean(x, alpha, adjust) ==
    IF x = <<>> THEN <<>>
    ELSE EwmRun(x, alpha, adjust, 1, [w |-> x[1], old |-> Fl(1)], <<>>)

\* ewm(span=s): alpha = 2/(s+1)
SpanAlpha(s) == FlQ(2, s + 1)

(***************************************************************************)
(* Column names are Python strings, kept as tuples of characters so that   *)
(* str.startswith and the lexicographic order of sorted() are computed,    *)
(* not assumed.                                                            *)
(***************************************************************************)
Alphabet ==
    << "0", "1", "2", "3", "4", "5", "6", "7", "8", "9",
       "A", "B", "C", "D", "E", "F", "G", "H", "I", "J", "K", "L", "M",
       "N", "O", "P", "Q", "R", "S", "T", "U", "V", "W", "X", "Y", "Z",
       "_",
       "a", "b", "c", "d", "e", "f", "g", "h", "i", "j", "k", "l", "m",
       "n", "o", "p", "q", "r", "s", "t", "u", "v", "w", "x", "y", "z" >>

\* the rank of a character in code-point order (digits < upper < _ < lower)
Ord(ch) == CHOOSE i \in 1..Len(Alphabet) : Alphabet[i] = ch

\* str(n) for n >= 0, as f'{period}' formats it
RECURSIVE Str(_)
Str(n) == IF n < 10 THEN <<Alphabet[n + 1]>>
          ELSE Str(n \div 10) \o <<Alphabet[(n % 10) + 1]>>

\* s.startswith(prefix)
StartsWith(s, prefix) ==
    /\ Len(s) >= Len(prefix)
    /\ SubSeq(s, 1, Len(prefix)) = prefix

\* s < t in Python's string order
RECURSIVE StrLt(_, _)
StrLt(s, t) ==
    IF t = <<>> THEN FALSE
    ELSE IF s = <<>> THEN TRUE
    ELSE IF Head(s) # Head(t) THEN Ord(Head(s)) < Ord(Head(t))
    ELSE StrLt(Tail(s), Tail(t))

\* sorted(names): the names of a set in ascending string order
RECURSIVE Sorted(_)
Sorted(names) ==
    IF names = {} THEN <<>>
    ELSE LET least == CHOOSE x \in names : \A y \in names \ {x} : StrLt(x, y)
         IN  <<least>> \o Sorted(names \ {least})

Col ==
    [open |-> <<"o", "p", "e", "n">>,
     high |-> <<"h", "i", "g", "h">>,
     low |-> <<"l", "o", "w">>,
     close |-> <<"c", "l", "o", "s", "e">>,
     volume |-> <<"v", "o", "l", "u", "m", "e">>,
     RSI |-> <<"R", "S", "I">>,
     MACD |-> <<"M", "A", "C", "D">>,
     MACD_Signal |-> <<"M", "A", "C", "D", "_", "S", "i", "g", "n", "a", "l">>,
     MACD_Histogram |->
        <<"M", "A", "C", "D", "_", "H", "i", "s", "t", "o", "g", "r", "a", "m">>,
     BOLL_MID |-> <<"B", "O", "L", "L", "_", "M", "I", "D">>,
     BOLL_STD |-> <<"B", "O", "L", "L", "_", "S", "T", "D">>,
     BOLL_UPPER |-> <<"B", "O", "L", "L", "_", "U", "P", "P", "E", "R">>,
     BOLL_LOWER |-> <<"B", "O", "L", "L", "_", "L", "O", "W", "E", "R">>,
     BOLL_WIDTH |-> <<"B", "O", "L", "L", "_", "W", "I", "D", "T", "H">>,
     K |-> <<"K">>,
     D |-> <<"D">>,
     J |-> <<"J">>,
     ATR |-> <<"A", "T", "R">>,
     OBV |-> <<"O", "B", "V">>]

c_MA(p) == <<"M", "A">> \o Str(p)

c_EMA(p) == <<"E", "M", "A">> \o Str(p)

c_VOL_MA(p) == <<"V", "O", "L", "_", "M", "A">> \o Str(p)

(***************************************************************************)
(* Frames (pandas.DataFrame): n rows and a mapping from column name to a   *)
(* series of n values.  pd.DataFrame() is the frame with no rows and no    *)
(* columns.                                                                *)
(***************************************************************************)
EmptyFrame == [n |-> 0, c |-> [name \in {} |-> <<>>]]

Columns(df) == DOMAIN df.c

\* df[name] = series: adds the column or replaces it; the rows of the frame
\* are those of its index, whatever the assigned values' number
SetCol(df, name, series) ==
    [n |-> df.n,
     c |-> [x \in (DOMAIN df.c) \cup {name} |->
                IF x = name THEN AsSeries(series) ELSE df.c[x]]]

\* the outcome of a call: a returned value, or the exception raised;
\* calls lists the indicator functions entered, in order
Return(v, fns) == [exc |-> "none", val |-> v, calls |-> fns]

Raise(e, fns) == [exc |-> e, val |-> {}, calls |-> fns]

(***************************************************************************)
(* TechnicalAnalyzer: the indicator functions                              *)
(***************************************************************************)
RECURSIVE MaCols(_, _, _)
MaCols(df, periods, i) ==
    IF i > Len(periods) THEN df
    ELSE MaCols(SetCol(df, c_MA(periods[i]), rolling_mean(df.c[Col.close], periods[i])),
                periods, i + 1)

calculate_ma(data, periods) ==
    IF periods # <<>> /\ Col.close \notin Columns(data)
    THEN Raise("KeyError", <<"calculate_ma">>)
    ELSE Return(MaCols(data, periods, 1), <<"calculate_ma">>)

RECURSIVE EmaCols(_, _, _)
EmaCols(df, periods, i) ==
    IF i > Len(periods) THEN df
    ELSE EmaCols(SetCol(df, c_EMA(periods[i]),
                        ewm_mean(df.c[Col.close], SpanAlpha(periods[i]), FALSE)),
                 periods, i + 1)

calculate_ema(data, periods) ==
    IF periods # <<>> /\ Col.close \notin Columns(data)
    THEN Raise("KeyError", <<"calculate_ema">>)
    ELSE Return(EmaCols(data, periods, 1), <<"calculate_ema">>)

\* delta.where(delta > 0, 0): rows where the condition is false, the NaN
\* first row included, become 0
GainOf(delta) == [i \in 1..Len(delta) |-> IF FGt(delta[i], Fl(0)) THEN delta[i] ELSE Fl(0)]

\* A faulty variant of LossOf: delta.where(delta < 0, 0) without the
\* negation, so that losses are negative.  C8 does not hold of it.
LossOfSigned(delta) ==
    [i \in 1..Len(delta) |-> IF FLt(delta[i], Fl(0)) THEN delta[i] ELSE Fl(0)]

\* -delta.where(delta < 0, 0)
LossOf(delta) ==
    [i \in 1..Len(delta) |-> FNeg(IF FLt(delta[i], Fl(0)) THEN delta[i] ELSE Fl(0))]

\* 100 - (100 / (1 + rs))
RsiOfRs(rs) == FSub(Fl(100), FDiv(Fl(100), FAdd(Fl(1), rs)))

\* the RSI column, from the rolling means of the gains and of the losses
RsiOfAverages(gain, loss) ==
    [i \in 1..Len(gain) |-> RsiOfRs(FDiv(gain[i], loss[i]))]

RsiOfDelta(delta, period) ==
    RsiOfAverages(AsSeries(rolling_mean(GainOf(delta), period)),
                  AsSeries(rolling_mean(LossOf(delta), period)))

RsiSeries(close, period) == RsiOfDelta(AsSeries(diff(close)), period)

calculate_rsi(data, period) ==
    IF Col.close \notin Columns(data)
    THEN Raise("KeyError", <<"calculate_rsi">>)
    ELSE Return(SetCol(data, Col.RSI, RsiSeries(data.c[Col.close], period)),
                <<"calculate_rsi">>)

\* exp1 - exp2
MacdLine(close, fast, slow) ==
    AsSeries(SeriesSub(ewm_mean(close, SpanAlpha(fast), FALSE),
                       ewm_mean(close, SpanAlpha(slow), FALSE)))

\* A faulty variant of MacdCols: the histogram taken as signal minus MACD.
\* C11 does not hold of it.
MacdColsSwapped(df, macd, sig) ==
    SetCol(SetCol(SetCol(df, Col.MACD, macd), Col.MACD_Signal, sig),
           Col.MACD_Histogram, SeriesSub(sig, macd))

\* the three MACD columns, from the MACD line and its signal line
MacdCols(df, macd, sig) ==
    SetCol(SetCol(SetCol(df, Col.MACD, macd), Col.MACD_Signal, sig),
           Col.MACD_Histogram, SeriesSub(macd, sig))

MacdOfLine(df, macd, signal) ==
    MacdCols(df, macd, ewm_mean(macd, SpanAlpha(signal), FALSE))

calculate_macd(data, fast, slow, signal) ==
    IF Col.close \notin Columns(data)
    THEN Raise("KeyError", <<"calculate_macd">>)
    ELSE Return(MacdOfLine(data, MacdLine(data.c[Col.close], fast, slow), signal),
                <<"calculate_macd">>)

\* the width column, from the columns already in the frame
BollWidth(df) ==
    SetCol(df, Col.BOLL_WIDTH,
           [i \in 1..df.n |->
               FDiv(FSub(df.c[Col.BOLL_UPPER][i], df.c[Col.BOLL_LOWER][i]),
                    df.c[Col.BOLL_MID][i])])

\* A faulty variant of BollBands: the band columns exchanged.  C12 does not
\* hold of it.
BollBandsSwapped(df, std_dev) ==
    SetCol(SetCol(df,
        Col.BOLL_LOWER, [i \in 1..df.n |->
            FAdd(df.c[Col.BOLL_MID][i], FMul(df.c[Col.BOLL_STD][i], std_dev))]),
        Col.BOLL_UPPER, [i \in 1..df.n |->
            FSub(df.c[Col.BOLL_MID][i], FMul(df.c[Col.BOLL_STD][i], std_dev))])

\* the band columns, from the mid and std columns already in the frame
BollBands(df, std_dev) ==
    SetCol(SetCol(df,
        Col.BOLL_UPPER, [i \in 1..df.n |->
            FAdd(df.c[Col.BOLL_MID][i], FMul(df.c[Col.BOLL_STD][i], std_dev))]),
        Col.BOLL_LOWER, [i \in 1..df.n |->
            FSub(df.c[Col.BOLL_MID][i], FMul(df.c[Col.BOLL_STD][i], std_dev))])

BollMidStd(df, period) ==
    SetCol(SetCol(df, Col.BOLL_MID, rolling_mean(df.c[Col.close], period)),
           Col.BOLL_STD, rolling_std(df.c[Col.close], period))

calculate_bollinger(data, period, std_dev) ==
    IF Col.close \notin Columns(data)
    THEN Raise("KeyError", <<"calculate_bollinger">>)
    ELSE Return(BollWidth(BollBands(BollMidStd(data, period), std_dev)),
                <<"calculate_bollinger">>)

\* (close - low_list) / (high_list - low_list) * 100
Rsv(close, low_list, high_list) ==
    AsSeries([i \in 1..Len(close) |->
        FMul(FDiv(FSub(close[i], low_list[i]), FSub(high_list[i], low_list[i])),
             Fl(100))])

\* 3 * K - 2 * D
JLine(k, d) == [i \in 1..Len(k) |-> FSub(FMul(Fl(3), k[i]), FMul(Fl(2), d[i]))]

KdjK(df, rsv, m1) == SetCol(df, Col.K, ewm_mean(rsv, FlQ(1, m1), FALSE))

\* the D column, from the K column already in the frame
KdjD(df, m2) == SetCol(df, Col.D, ewm_mean(df.c[Col.K], FlQ(1, m2), FALSE))

\* the J column, from the K and D columns already in the frame
KdjJ(df) == SetCol(df, Col.J, JLine(df.c[Col.K], df.c[Col.D]))

calculate_kdj(data, n, m1, m2) ==
    IF {Col.low, Col.high, Col.close} \ Columns(data) # {}
    THEN Raise("KeyError", <<"calculate_kdj">>)
    ELSE Return(KdjJ(KdjD(KdjK(data,
                    Rsv(data.c[Col.close],
                        AsSeries(rolling_min(data.c[Col.low], n, n)),
                        AsSeries(rolling_max(data.c[Col.high], n, n))),
                    m1), m2)),
                <<"calculate_kdj">>)

RECURSIVE VolMaCols(_, _, _)
VolMaCols(df, periods, i) ==
    IF i > Len(periods) THEN df
    ELSE VolMaCols(SetCol(df, c_VOL_MA(periods[i]),
                          rolling_mean(df.c[Col.volume], periods[i])),
                   periods, i + 1)

calculate_volume_ma(data, periods) ==
    IF periods # <<>> /\ Col.volume \notin Columns(data)
    THEN Raise("KeyError", <<"calculate_volume_ma">>)
    ELSE Return(VolMaCols(data, periods, 1), <<"calculate_volume_ma">>)

\* np.max(ranges, axis=1) on a frame is DataFrame.max(axis=1): the largest
\* non-NaN value of the row, NaN when the row has none
RowMax(vals) == MaxOfObs(DropNaN(vals), 0)

\* prev is close.shift()
TrueRangeOf(high, low, prev) ==
    [i \in 1..Len(prev) |->
        RowMax(<< FSub(high[i], low[i]),
                  FAbs(FSub(high[i], prev[i])),
                  FAbs(FSub(low[i], prev[i])) >>)]

TrueRange(high, low, close) == AsSeries(TrueRangeOf(high, low, shift(close)))

calculate_atr(data, period) ==
    IF {Col.high, Col.low, Col.close} \ Columns(data) # {}
    THEN Raise("KeyError", <<"calculate_atr">>)
    ELSE Return(SetCol(data, Col.ATR,
                       rolling_mean(TrueRange(data.c[Col.high], data.c[Col.low],
                                              data.c[Col.close]), period)),
                <<"calculate_atr">>)

\* A faulty variant of ObvStepsOf: the volume added on every day the close
\* changes, whatever the direction.  C13 does not hold of it.
ObvStepsUnsigned(close, prev, volume) ==
    [i \in 1..Len(close) |->
        IF FGt(close[i], prev[i]) \/ FLt(close[i], prev[i]) THEN volume[i]
        ELSE Fl(0)]

\* prev is close.shift(1)
ObvStepsOf(close, prev, volume) ==
    [i \in 1..Len(close) |->
        IF FGt(close[i], prev[i]) THEN volume[i]
        ELSE IF FLt(close[i], prev[i]) THEN FNeg(volume[i])
        ELSE Fl(0)]

\* A faulty variant of ObvSteps: the steps of the rows that have a previous
\* row only, one value fewer than the frame has rows.  C1 does not hold of it.
ObvStepsFromSecond(close, volume) ==
    SubSeq(AsSeries(ObvStepsOf(close, shift(close), volume)), 2, Len(close))

ObvSteps(close, volume) == AsSeries(ObvStepsOf(close, shift(close), volume))

calculate_obv(data) ==
    IF {Col.close, Col.volume} \ Columns(data) # {}
    THEN Raise("KeyError", <<"calculate_obv">>)
    ELSE Return(SetCol(data, Col.OBV,
                       cumsum(ObvSteps(data.c[Col.close], data.c[Col.volume]))),
                <<"calculate_obv">>)

(***************************************************************************)
(* Default arguments of the indicator functions                            *)
(***************************************************************************)
Default ==
    [ma_periods |-> <<5, 10, 20, 60>>,
     ema_periods |-> <<5, 12, 26>>,
     rsi_period |-> 14,
     macd_fast |-> 12, macd_slow |-> 26, macd_signal |-> 9,
     boll_period |-> 20, boll_std_dev |-> Fl(2),
     kdj_n |-> 9, kdj_m1 |-> 3, kdj_m2 |-> 3,
     vol_ma_periods |-> <<5, 10, 20>>,
     atr_period |-> 14,
     sr_window |-> 20]

\* A faulty variant of required_cols: the price columns only.  C2 does not
\* hold of it.
price_cols == <<Col.open, Col.high, Col.low, Col.close>>

required_cols == <<Col.open, Col.high, Col.low, Col.close, Col.volume>>

(***************************************************************************)
(* What outlives a call.  The functions are static methods of a class      *)
(* without attributes, and technical_analyzer is an instance of it.  The   *)
(* objects a call can reach that the next call sees again are the default  *)
(* values of the periods arguments, which Python builds once, when the     *)
(* function is defined, and hands to every call that omits the argument;   *)
(* and the attributes of the shared instance, of which there are none.     *)
(*   engine   the three default lists and the names of the attributes of   *)
(*            technical_analyzer                                           *)
(***************************************************************************)
VARIABLE engine

\* A faulty variant of EngineAfter: calculate_all_indicators consumes the
\* default list of calculate_ma, as a loop that pops its periods would.
\* C15 does not hold of it.
EngineAfterConsumed(name, e) ==
    IF name = "calculate_all_indicators" /\ e.ma_periods # <<>>
    THEN [e EXCEPT !.ma_periods = Tail(e.ma_periods)]
    ELSE e

\* the objects after a call of the function name: the loops read the
\* periods, and no function assigns to an attribute or to a global
EngineAfter(name, e) == e

\* the indicator calls of calculate_all_indicators, in order, each with
\* its default arguments
indicator_steps ==
    << "calculate_ma", "calculate_ema", "calculate_rsi", "calculate_macd",
       "calculate_bollinger", "calculate_kdj", "calculate_volume_ma",
       "calculate_atr", "calculate_obv" >>

CallDefault(fn, frame) ==
    CASE fn = "calculate_ma" -> calculate_ma(frame, engine.ma_periods)
      [] fn = "calculate_ema" -> calculate_ema(frame, engine.ema_periods)
      [] fn = "calculate_rsi" -> calculate_rsi(frame, Default.rsi_period)
      [] fn = "calculate_macd" -> calculate_macd(frame, Default.macd_fast, Default.macd_slow, Default.macd_signal)
      [] fn = "calculate_bollinger" -> calculate_bollinger(frame, Default.boll_period, Default.boll_std_dev)
      [] fn = "calculate_kdj" -> calculate_kdj(frame, Default.kdj_n, Default.kdj_m1, Default.kdj_m2)
      [] fn = "calculate_volume_ma" -> calculate_volume_ma(frame, engine.vol_ma_periods)
      [] fn = "calculate_atr" -> calculate_atr(frame, Default.atr_period)
      [] fn = "calculate_obv" -> calculate_obv(frame)

\* the outcome of a step, with the calls made before it
After(fns, step_res) == [step_res EXCEPT !.calls = fns \o step_res.calls]

\* df = step_i(df) for each step in turn; an exception ends the run
RECURSIVE RunSteps(_, _, _)
RunSteps(res, steps, i) ==
    IF i > Len(steps) \/ res.exc # "none" THEN res
    ELSE RunSteps(After(res.calls, CallDefault(steps[i], res.val)), steps, i + 1)

\* the first required column the frame lacks, in the order of the loop;
\* 0 when none is missing
FirstMissing(df, cols) ==
    IF \A i \in 1..Len(cols) : cols[i] \in Columns(df) THEN 0
    ELSE CHOOSE i \in 1..Len(cols) :
            /\ cols[i] \notin Columns(df)
            /\ \A j \in 1..(i - 1) : cols[j] \in Columns(df)

calculate_all_indicators(data) ==
    IF FirstMissing(data, required_cols) # 0
    THEN Raise("ValueError", <<>>)
    ELSE RunSteps(Return(data, <<>>), indicator_steps, 1)

(***************************************************************************)
(* get_latest_signals                                                      *)
(*                                                                         *)
(* The labels of the code are Chinese strings; each is written here in     *)
(* English, by the line that assigns it:                                   *)
(*   143 "overbought"         145 "oversold"          147 "neutral"        *)
(*   155 "bullish"            157 "bearish"                                *)
(*   166 "bullish alignment"  168 "bearish alignment" 170 "consolidating"  *)
(*   178 "broke above upper"  180 "broke below lower"                      *)
(*   184 "near upper"         186 "near lower"        188 "near midline"   *)
(*   194 "overbought zone"    196 "oversold zone"                          *)
(*   198 "consolidating zone"                                              *)
(*   215 "insufficient data"  228 "strong uptrend"    230 "mild uptrend"   *)
(*   232 "strong downtrend"   234 "mild downtrend"    236 "range-bound"    *)
(***************************************************************************)
\* the decimal digits of rem/d after the point, nd of them, appended to acc
RECURSIVE DecDigits(_, _, _, _)
DecDigits(acc, rem, d, nd) ==
    IF nd = 0 THEN [q |-> acc, r |-> rem]
    ELSE DecDigits(acc * 10 + ((rem * 10) \div d), (rem * 10) % d, d, nd - 1)

\* round(x, nd): to nd decimals, ties to the even digit; NaN and the
\* infinities round to themselves
\* dd holds the digits of |x| kept and the remainder dropped; the last
\* digit is raised when more than half of a unit is dropped, or exactly half
\* and the digit is odd
RoundDigits(x, dd, nd) ==
    Fin(Sgn(x.p) * (IF 2 * dd.r > x.d \/ (2 * dd.r = x.d /\ dd.q % 2 = 1)
                    THEN dd.q + 1 ELSE dd.q),
        0, 1, Pow(10, nd))

\* the values rounded are rational; the decimals of an irrational one are
\* not computed
round(x, nd) ==
    IF x.k # "fin" THEN x
    ELSE IF x.q # 0 THEN CHOOSE v \in {} : TRUE
    ELSE RoundDigits(x, DecDigits(Abs(x.p) \div x.d, Abs(x.p) % x.d, x.d, nd), nd)

\* DataFrame.empty: no rows or no columns
Empty(df) == df.n = 0 \/ Columns(df) = {}

\* data.iloc[-1][col]
Latest(df, col) == df.c[col][df.n]

\* d1 updated with the entries of d2
Upd(d1, d2) == [x \in (DOMAIN d1) \cup (DOMAIN d2) |-> IF x \in DOMAIN d2 THEN d2[x] ELSE d1[x]]

NoSignals == [x \in {} |-> ""]

RsiLabel(rsi) ==
    IF FGt(rsi, Fl(70)) THEN "overbought"
    ELSE IF FLt(rsi, Fl(30)) THEN "oversold"
    ELSE "neutral"

RsiSignals(df) ==
    IF Col.RSI \notin Columns(df) THEN NoSignals
    ELSE [x \in {"RSI", "RSI_VALUE"} |->
            IF x = "RSI_VALUE" THEN round(Latest(df, Col.RSI), 2)
            ELSE RsiLabel(Latest(df, Col.RSI))]

\* A faulty variant of MacdLabel: a tie counts as bullish.  C21 does not
\* hold of it.
MacdLabelTieBullish(macd, signal) ==
    IF FLt(macd, signal) THEN "bearish" ELSE "bullish"

MacdLabel(macd, signal) == IF FGt(macd, signal) THEN "bullish" ELSE "bearish"

MacdSignals(df) ==
    IF ~({Col.MACD, Col.MACD_Signal} \subseteq Columns(df)) THEN NoSignals
    ELSE [x \in {"MACD", "MACD_VALUE", "MACD_SIGNAL"} |->
            IF x = "MACD_VALUE" THEN round(Latest(df, Col.MACD), 4)
            ELSE IF x = "MACD_SIGNAL" THEN round(Latest(df, Col.MACD_Signal), 4)
            ELSE MacdLabel(Latest(df, Col.MACD), Latest(df, Col.MACD_Signal))]

\* [col for col in data.columns if col.startswith('MA')]
ma_cols(df) == {col \in Columns(df) : StartsWith(col, <<"M", "A">>)}

\* the label of the last-row values of the three columns compared
MaTrend(v0, v1, v2) ==
    IF FGt(v0, v1) /\ FGt(v1, v2) THEN "bullish alignment"
    ELSE IF FLt(v0, v1) /\ FLt(v1, v2) THEN "bearish alignment"
    ELSE "consolidating"

\* names is sorted(ma_cols)
MaTrendOf(df, names) ==
    MaTrend(Latest(df, names[1]), Latest(df, names[2]), Latest(df, names[3]))

MaSignals(df) ==
    IF Cardinality(ma_cols(df)) < 3 THEN NoSignals
    ELSE [x \in {"MA_TREND"} |-> MaTrendOf(df, Sorted(ma_cols(df)))]

\* boll_pct is (close - lower) / (upper - lower)
BollLabel(close, upper, lower, boll_pct) ==
    IF FGt(close, upper) THEN "broke above upper"
    ELSE IF FLt(close, lower) THEN "broke below lower"
    ELSE IF FGt(boll_pct, FlQ(8, 10)) THEN "near upper"
    ELSE IF FLt(boll_pct, FlQ(2, 10)) THEN "near lower"
    ELSE "near midline"

BollPosition(close, upper, lower) ==
    BollLabel(close, upper, lower, FDiv(FSub(close, lower), FSub(upper, lower)))

BollSignals(df) ==
    IF ~({Col.BOLL_UPPER, Col.BOLL_LOWER} \subseteq Columns(df)) THEN NoSignals
    ELSE [x \in {"BOLLINGER"} |->
            BollPosition(Latest(df, Col.close), Latest(df, Col.BOLL_UPPER),
                         Latest(df, Col.BOLL_LOWER))]

KdjLabel(j) ==
    IF FGt(j, Fl(100)) THEN "overbought zone"
    ELSE IF FLt(j, Fl(0)) THEN "oversold zone"
    ELSE "consolidating zone"

KdjSignals(df) ==
    IF Col.J \notin Columns(df) THEN NoSignals
    ELSE [x \in {"KDJ", "KDJ_J"} |->
            IF x = "KDJ_J" THEN round(Latest(df, Col.J), 2)
            ELSE KdjLabel(Latest(df, Col.J))]

get_latest_signals(data) ==
    IF Empty(data) THEN Return(NoSignals, <<>>)
    ELSE IF {Col.BOLL_UPPER, Col.BOLL_LOWER} \subseteq Columns(data)
            /\ Col.close \notin Columns(data)
    THEN Raise("KeyError", <<>>)
    ELSE Return(Upd(Upd(Upd(Upd(RsiSignals(data), MacdSignals(data)),
                    MaSignals(data)), BollSignals(data)), KdjSignals(data)), <<>>)

(***************************************************************************)
(* calculate_support_resistance, calculate_trend_strength                  *)
(***************************************************************************)
\* Series.max() / Series.min() / Series.mean(): NaN values are skipped, and
\* the result over no values is NaN
SeriesMax(x) == MaxOfObs(DropNaN(x), 0)

SeriesMin(x) == MinOfObs(DropNaN(x), 0)

SeriesMean(x) == MeanOfObs(DropNaN(x), 0)

\* x.tail(k): the last k values
TailRows(x, k) == SubSeq(x, Max2(1, Len(x) - k + 1), Len(x))

\* returns the pair (support, resistance)
calculate_support_resistance(data, window) ==
    IF {Col.high, Col.low} \ Columns(data) # {}
    THEN Raise("KeyError", <<>>)
    ELSE Return(<< SeriesMin(TailRows(data.c[Col.low], window)),
                   SeriesMax(TailRows(data.c[Col.high], window)) >>, <<>>)

\* sum over i of (x_i - mean(x)) * y_i with x_i = i - 1, scaled by 2 to
\* stay integral in x: the numerator of the least-squares slope
RECURSIVE SlopeNum(_, _, _)
SlopeNum(y, i, acc) ==
    IF i > Len(y) THEN acc
    ELSE Strict(acc, SlopeNum(y, i + 1,
                    FAdd(acc, FMul(Fl(2 * (i - 1) - (Len(y) - 1)), y[i]))))

RECURSIVE SlopeDen(_, _)
SlopeDen(m, i) ==
    IF i = 0 THEN 0
    ELSE SlopeDen(m, i - 1) + (2 * (i - 1) - (m - 1)) * (2 * (i - 1) - (m - 1))

\* np.polyfit(np.arange(len(y)), y, 1)[0], the exact least-squares slope
PolyfitSlope(y) == FDiv(FMul(Fl(2), SlopeNum(y, 1, Fl(0))), Fl(SlopeDen(Len(y), Len(y))))

\* A faulty variant of TrendLabel: the latest close is not compared with the
\* mean, so that every rising slope is a strong uptrend.  C25 does not hold
\* of it.
TrendLabelSlopeOnly(slope, latest, ma20) ==
    IF FGt(slope, Fl(0)) THEN "strong uptrend"
    ELSE IF FLt(slope, Fl(0)) THEN "strong downtrend"
    ELSE "range-bound"

TrendLabel(slope, latest, ma20) ==
    IF FGt(slope, Fl(0)) /\ FGt(latest, ma20) THEN "strong uptrend"
    ELSE IF FGt(slope, Fl(0)) THEN "mild uptrend"
    ELSE IF FLt(slope, Fl(0)) /\ FLt(latest, ma20) THEN "strong downtrend"
    ELSE IF FLt(slope, Fl(0)) THEN "mild downtrend"
    ELSE "range-bound"

\* recent is data['close'].tail(20)
TrendOfRecent(recent, latest) ==
    TrendLabel(PolyfitSlope(recent), latest, SeriesMean(recent))

\* A faulty variant of calculate_trend_strength: a series of exactly 20 rows
\* is still too short.  C16 does not hold of it.
calculate_trend_strength_over20(data) ==
    IF data.n <= 20 THEN Return("insufficient data", <<>>)
    ELSE IF Col.close \notin Columns(data) THEN Raise("KeyError", <<>>)
    ELSE Return(TrendOfRecent(TailRows(data.c[Col.close], 20),
                              Latest(data, Col.close)), <<>>)

calculate_trend_strength(data) ==
    IF data.n < 20 THEN Return("insufficient data", <<>>)
    ELSE IF Col.close \notin Columns(data) THEN Raise("KeyError", <<>>)
    ELSE Return(TrendOfRecent(TailRows(data.c[Col.close], 20),
                              Latest(data, Col.close)), <<>>)

(***************************************************************************)
(* The state: one analysis session of a caller of the engine.              *)
(*   data     the frame the market-data provider returned                  *)
(*   df       the frame the caller holds: data, or the frame returned by   *)
(*            the last indicator call that succeeded                       *)
(*   op/args  the engine function called last and its arguments            *)
(*   exc      the exception that call raised, "none" if it returned        *)
(*   calls    the indicator functions that call entered, in order          *)
(*   signals  the mapping get_latest_signals returned                      *)
(*   levels   the pair calculate_support_resistance returned               *)
(*   trend    the label calculate_trend_strength returned                  *)
(*   first    the outcome of the session's first call of                   *)
(*            calculate_all_indicators, which the caller keeps, and the    *)
(*            name the call was made through                               *)
(*   cron     the report job (src/cron_job.py): how the process was        *)
(*            started, the inputs and the outcome of its last run of       *)
(*            run_daily_report, the runs made, and the state of the        *)
(*            scheduling loop, and the closing messages the job wrote to   *)
(*            its log.  The job does not call the engine.                  *)
(***************************************************************************)
VARIABLES data, df, op, args, exc, calls, signals, levels, trend, first, cron

vars ==
    <<data, df, op, args, exc, calls, signals, levels, trend, first, engine, cron>>

(***************************************************************************)
(* Provider frames.  A bar is one day's open, high, low, close, volume     *)
(* with low <= open, close <= high.                                        *)
(***************************************************************************)
Bar(o, h, l, c, v) == [open |-> o, high |-> h, low |-> l, close |-> c, volume |-> v]

BarCol(bars, name) ==
    [i \in 1..Len(bars) |->
        Fl(IF name = Col.open THEN bars[i].open
           ELSE IF name = Col.high THEN bars[i].high
           ELSE IF name = Col.low THEN bars[i].low
           ELSE IF name = Col.close THEN bars[i].close
           ELSE bars[i].volume)]

\* the frame of a bar sequence, with the given columns
FrameOf(bars, cols) == [n |-> Len(bars), c |-> [name \in cols |-> BarCol(bars, name)]]

OHLCV == {Col.open, Col.high, Col.low, Col.close, Col.volume}

\* rows of the longest provider frame of Spec
MaxRows == 21

\* bars that differ from the base bar at the end of a provider frame of Spec
MaxTail == 1

\* a day without any price range, and a day that closes where it opened
BaseBars == {Bar(10, 10, 10, 10, 100), Bar(10, 11, 9, 10, 100)}

\* an up day, a down day, and a quiet day
TailBars == {Bar(10, 12, 10, 12, 200), Bar(10, 10, 8, 8, 300), Bar(10, 11, 9, 10, 150)}

RECURSIVE SeqsUpTo(_, _)
SeqsUpTo(S, k) ==
    IF k = 0 THEN {<<>>}
    ELSE LET shorter == SeqsUpTo(S, k - 1)
         IN  shorter \cup {Append(q, e) : q \in {t \in shorter : Len(t) = k - 1}, e \in S}

\* n - Len(tail) base bars followed by the tail
BarsOf(n, base, tail) == [i \in 1..(n - Len(tail)) |-> base] \o tail

\* and the longest series that end with a move taken back the day after
LongBars ==
    ({BarsOf(n, base, tail) :
        n \in 0..MaxRows, base \in BaseBars,
        tail \in SeqsUpTo(TailBars, MaxTail)} \ {<<>>})
    \cup {BarsOf(n, base, <<move, Bar(10, 11, 9, 10, 150)>>) :
            n \in (MaxRows - 1)..MaxRows, base \in BaseBars, move \in TailBars}

\* what the provider returns: on failure pd.DataFrame(); otherwise a frame
\* of bars, possibly of no rows; and the same frames as a caller may pass
\* them with one of the required columns dropped
ProviderFrames ==
    {EmptyFrame}
    \cup {FrameOf(bars, OHLCV) : bars \in LongBars \cup {<<>>}}
    \cup {FrameOf(BarsOf(n, Bar(10, 11, 9, 10, 100), <<>>), OHLCV \ {col}) :
            n \in 0..MaxRows, col \in OHLCV}

\* the functions that return an enriched frame
Enrichers ==
    {"calculate_all_indicators", "calculate_ma", "calculate_ema", "calculate_rsi",
     "calculate_macd", "calculate_bollinger", "calculate_kdj",
     "calculate_volume_ma", "calculate_atr", "calculate_obv"}

\* a session starts with a frame from the provider and no call made
Started(frames) ==
    /\ data \in frames
    /\ df = data
    /\ op = "none"
    /\ args = <<>>
    /\ exc = "none"
    /\ calls = <<>>
    /\ signals = NoSignals
    /\ levels = <<NaN, NaN>>
    /\ trend = ""
    /\ first = [exc |-> "unset", val |-> {}, calls |-> <<>>, via |-> ""]
    /\ engine = [ma_periods |-> Default.ma_periods,
                 ema_periods |-> Default.ema_periods,
                 vol_ma_periods |-> Default.vol_ma_periods,
                 attrs |-> {}]
    /\ cron = [mode |-> "none", force |-> FALSE, weekday |-> 0, calendar |-> "",
               outcome |-> <<>>, runs |-> 0, loop |-> "none", log |-> <<>>,
               last |-> [ret |-> "none", steps |-> <<>>, raised |-> "none",
                         checked |-> FALSE, consulted |-> FALSE, msg |-> <<>>]]

Init == Started(ProviderFrames)

\* A faulty variant of InputAfter: the indicator functions add their
\* columns to the frame they are given.  C17 does not hold of it.
InputAfterInPlace(name, frame, r) ==
    IF name \in Enrichers /\ r.exc = "none" THEN r.val ELSE frame

\* the frame passed to the function name, after the call with the outcome
\* r: every calculate_* function works on data.copy(), and the other
\* functions only read their frame
InputAfter(name, frame, r) == frame

\* the caller's view after a call of the engine function name with the
\* arguments a and the outcome r.  An indicator function is passed data and
\* its caller keeps the returned frame (df = f(data)), or its frame as it
\* was when the call raises; the other functions are passed df and return a
\* value.
Respond(name, a, r) ==
    /\ op' = name
    /\ args' = a
    /\ exc' = r.exc
    /\ calls' = r.calls
    /\ data' = IF name \in Enrichers THEN InputAfter(name, data, r) ELSE data
    /\ df' = IF name \in Enrichers
             THEN IF r.exc = "none" THEN r.val ELSE df
             ELSE InputAfter(name, df, r)
    /\ first' = IF name = "calculate_all_indicators" /\ first.exc = "unset"
                THEN [exc |-> r.exc, val |-> r.val, calls |-> r.calls, via |-> a[1]]
                ELSE first
    /\ engine' = EngineAfter(name, engine)
    /\ cron' = cron
    /\ signals' = IF r.exc = "none" /\ name = "get_latest_signals"
                  THEN r.val ELSE NoSignals
    /\ levels' = IF r.exc = "none" /\ name = "calculate_support_resistance"
                 THEN r.val ELSE <<NaN, NaN>>
    /\ trend' = IF r.exc = "none" /\ name = "calculate_trend_strength"
                THEN r.val ELSE ""

\* the caller enriches the frame the provider returned before anything
\* else, as the module's own caller does: no call made yet
Fresh == op = "none"

\* the static method reached through the class TechnicalAnalyzer or through
\* the shared instance technical_analyzer.  The session begins with the
\* call through the class, as the module's own caller makes it, and the
\* caller may repeat the call, through the instance that the package
\* exports, on the frame the provider returned
CalcAllIndicators(via) ==
    /\ \/ Fresh /\ via = "TechnicalAnalyzer"
       \/ first.exc # "unset" /\ via = "technical_analyzer"
    /\ Respond("calculate_all_indicators", <<via>>, calculate_all_indicators(data))

GetLatestSignals ==
    Respond("get_latest_signals", <<>>, get_latest_signals(df))

CalcSupportResistance ==
    Respond("calculate_support_resistance", <<Default.sr_window>>,
            calculate_support_resistance(df, Default.sr_window))

CalcTrendStrength ==
    Respond("calculate_trend_strength", <<>>, calculate_trend_strength(df))

\* the bands alone, with the default period and the multiplier std_dev
CalcBollinger(std_dev) ==
    /\ Fresh
    /\ Respond("calculate_bollinger", <<Default.boll_period, std_dev>>,
               calculate_bollinger(data, Default.boll_period, std_dev))

Next ==
    \/ \E via \in {"TechnicalAnalyzer", "technical_analyzer"} : CalcAllIndicators(via)
    \/ \E std_dev \in {Fl(0), FlQ(1, 2), Fl(2)} : CalcBollinger(std_dev)
    \/ GetLatestSignals
    \/ CalcSupportResistance
    \/ CalcTrendStrength

Spec == Init /\ [][Next]_vars

(***************************************************************************)
(* SpecInd: the indicator functions called one at a time with explicit     *)
(* periods, on short series of varied bars, and get_latest_signals on the  *)
(* frame such a call returned.                                             *)
(***************************************************************************)
\* rows of the longest frame of varied bars
MaxLen == 4

\* the largest window, span or period passed
MaxPeriod == 3

\* a quiet day, an up day and a down day
ShortBars == {Bar(10, 10, 10, 10, 100), Bar(10, 12, 10, 11, 200), Bar(10, 10, 8, 9, 150)}

\* a day on which every price is c
FlatBar(c) == Bar(c, c, c, c, 100)

\* the closes 10, 11, 12, 13, 14; the closes 10, 12; and the closes
\* 10, 11, 10, 10, 12 with the volumes 100, 200, 150, 150, 300
ExampleBars ==
    { <<FlatBar(10), FlatBar(11), FlatBar(12), FlatBar(13), FlatBar(14)>>,
      <<FlatBar(10), FlatBar(12)>>,
      <<Bar(10, 10, 10, 10, 100), Bar(11, 11, 11, 11, 200), Bar(10, 10, 10, 10, 150),
        Bar(10, 10, 10, 10, 150), Bar(12, 12, 12, 12, 300)>> }

ShortFrames ==
    {FrameOf(bars, OHLCV) : bars \in SeqsUpTo(ShortBars, MaxLen) \cup ExampleBars}

\* the lists of one period and of two different periods
PeriodLists ==
    {<<w>> : w \in 1..MaxPeriod}
    \cup {pair \in (1..MaxPeriod) \X (1..MaxPeriod) : pair[1] # pair[2]}

InitInd == Started(ShortFrames)

CalcMA(periods) ==
    /\ Fresh
    /\ Respond("calculate_ma", <<periods>>, calculate_ma(data, periods))

CalcEMA(periods) ==
    /\ Fresh
    /\ Respond("calculate_ema", <<periods>>, calculate_ema(data, periods))

CalcRSI(period) ==
    /\ Fresh
    /\ Respond("calculate_rsi", <<period>>, calculate_rsi(data, period))

CalcMACD(fast, slow, signal) ==
    /\ Fresh
    /\ Respond("calculate_macd", <<fast, slow, signal>>,
               calculate_macd(data, fast, slow, signal))

CalcKDJ(n, m1, m2) ==
    /\ Fresh
    /\ Respond("calculate_kdj", <<n, m1, m2>>, calculate_kdj(data, n, m1, m2))

CalcATR(period) ==
    /\ Fresh
    /\ Respond("calculate_atr", <<period>>, calculate_atr(data, period))

CalcOBV ==
    /\ Fresh
    /\ Respond("calculate_obv", <<>>, calculate_obv(data))

NextInd ==
    \/ \E periods \in PeriodLists : CalcMA(periods)
    \/ \E periods \in PeriodLists : CalcEMA(periods)
    \/ \E period \in 1..MaxPeriod : CalcRSI(period)
    \/ \E fast \in 1..MaxPeriod, slow \in 1..MaxPeriod, signal \in {1, 2} :
          fast < slow /\ CalcMACD(fast, slow, signal)
    \/ \E n \in 1..MaxPeriod, m1 \in {2, 3}, m2 \in {2, 3} : CalcKDJ(n, m1, m2)
    \/ \E period \in 1..MaxPeriod : CalcATR(period)
    \/ CalcOBV
    \/ GetLatestSignals

SpecInd == InitInd /\ [][NextInd]_vars

(***************************************************************************)
(* SpecCron: the report job of src/cron_job.py.                            *)
(*                                                                         *)
(* A run of run_daily_report has these inputs from its environment:        *)
(*   weekday   datetime.now().weekday(), 0 = Monday .. 6 = Sunday          *)
(*   calendar  what the trading calendar of akshare answers for today:     *)
(*             "listed", "unlisted", or "Exception" when the import or     *)
(*             the request fails                                           *)
(*   outcome   for each of the four steps of report_steps, "ok" when it    *)
(*             returns, "Exception" when it raises an exception of a       *)
(*             class derived from Exception, "KeyboardInterrupt" when the  *)
(*             user interrupts the process during the step                 *)
(* The waits of the scheduling loop are not negative: a run ends before    *)
(* the next scheduled time.                                                *)
(***************************************************************************)
\* runs of the scheduling loop that are followed
MaxRuns == 2

\* A faulty variant of is_trading_day: no weekend test, the calendar is asked
\* on every day.  C29 does not hold of it.
is_trading_day_calendar_only(weekday, calendar) ==
    [val |-> calendar # "unlisted", consulted |-> TRUE]

\* is_trading_day(): val is the value returned, consulted whether the
\* trading calendar was asked
is_trading_day(weekday, calendar) ==
    IF weekday >= 5 THEN [val |-> FALSE, consulted |-> FALSE]
    ELSE [val |-> IF calendar = "Exception" THEN weekday < 5
                  ELSE calendar = "listed",
          consulted |-> TRUE]

\* A faulty variant of report_steps: the report saved before it is
\* generated.  C30 does not hold of it.
report_steps_save_first ==
    <<"ReportGenerator", "fetch_all_data", "save_report", "generate_report">>

\* the statements of the try block after the trading-day check, in order:
\* the import and construction of the generator, and its three methods
report_steps ==
    <<"ReportGenerator", "fetch_all_data", "generate_report", "save_report">>

\* run_daily_report(force).  ret is the value returned ("none" when the
\* call does not return), steps the steps entered in order, raised the
\* exception that leaves the function, checked whether is_trading_day was
\* called and consulted whether it asked the calendar, msg the message the
\* run logs last ("skipped" line 72, "success" line 90, "failed" line 98).
\* except Exception catches what a step raises and does not catch
\* KeyboardInterrupt.
run_daily_report(force, weekday, calendar, outcome) ==
    IF ~force /\ ~is_trading_day(weekday, calendar).val
    THEN [ret |-> "False", steps |-> <<>>, raised |-> "none", checked |-> TRUE,
          consulted |-> is_trading_day(weekday, calendar).consulted,
          msg |-> <<"skipped">>]
    ELSE LET bad == {i \in 1..Len(report_steps) : outcome[i] # "ok"}
             stop == IF bad = {} THEN Len(report_steps)
                     ELSE CHOOSE i \in bad : \A j \in bad : i <= j
         IN  [ret |-> IF bad = {} THEN "True"
                      ELSE IF outcome[stop] = "Exception" THEN "False"
                      ELSE "none",
              steps |-> SubSeq(report_steps, 1, stop),
              raised |-> IF bad # {} /\ outcome[stop] # "Exception"
                         THEN outcome[stop] ELSE "none",
              checked |-> ~force,
              consulted |-> ~force /\ is_trading_day(weekday, calendar).consulted,
              msg |-> IF bad = {} THEN <<"success">>
                      ELSE IF outcome[stop] = "Exception" THEN <<"failed">>
                      ELSE <<>>]

\* python cron_job.py --run-once [--force]: one run, then the process ends
RunOnce(force, weekday, calendar, outcome) ==
    /\ cron.mode = "none"
    /\ cron' = [mode |-> "run_once", force |-> force, weekday |-> weekday,
                calendar |-> calendar, outcome |-> outcome, runs |-> 1,
                loop |-> "none",
                log |-> run_daily_report(force, weekday, calendar, outcome).msg,
                last |-> run_daily_report(force, weekday, calendar, outcome)]
    /\ UNCHANGED <<data, df, op, args, exc, calls, signals, levels, trend, first, engine>>

\* python cron_job.py: one turn of the loop of run_with_schedule, the wait
\* for the next scheduled time (a weekday at 12:00) and the run made then,
\* whose return value the loop does not read.  A KeyboardInterrupt that
\* leaves the run ends the loop, which logs that it stopped (line 132).
ScheduledRun(weekday, calendar, outcome) ==
    /\ cron.mode \in {"none", "schedule"}
    /\ cron.loop # "stopped"
    /\ cron.runs < MaxRuns
    /\ cron' = [mode |-> "schedule", force |-> FALSE, weekday |-> weekday,
                calendar |-> calendar, outcome |-> outcome,
                runs |-> cron.runs + 1,
                loop |-> IF run_daily_report(FALSE, weekday, calendar, outcome).raised
                              = "none"
                         THEN "waiting" ELSE "stopped",
                log |-> cron.log
                        \o run_daily_report(FALSE, weekday, calendar, outcome).msg
                        \o IF run_daily_report(FALSE, weekday, calendar, outcome).raised
                                 = "none"
                           THEN <<>> ELSE <<"stopped">>,
                last |-> run_daily_report(FALSE, weekday, calendar, outcome)]
    /\ UNCHANGED <<data, df, op, args, exc, calls, signals, levels, trend, first, engine>>

\* the loop ends without a run: croniter cannot be imported (before the
\* first wait, logged on line 129), or the user interrupts a wait (logged
\* on line 132)
StopSchedule(cause) ==
    /\ cron.mode \in {"none", "schedule"}
    /\ cron.loop # "stopped"
    /\ cause = "ImportError" => cron.mode = "none"
    /\ cron' = [cron EXCEPT !.mode = "schedule", !.loop = "stopped",
                            !.log = Append(cron.log,
                                           IF cause = "ImportError" THEN "no croniter"
                                           ELSE "stopped")]
    /\ UNCHANGED <<data, df, op, args, exc, calls, signals, levels, trend, first, engine>>

NextCron ==
    \/ \E force \in BOOLEAN, weekday \in 0..6,
          calendar \in {"listed", "unlisted", "Exception"},
          outcome \in [1..Len(report_steps) -> {"ok", "Exception", "KeyboardInterrupt"}] :
          RunOnce(force, weekday, calendar, outcome)
    \/ \E weekday \in 0..4,
          calendar \in {"listed", "unlisted", "Exception"},
          outcome \in [1..Len(report_steps) -> {"ok", "Exception", "KeyboardInterrupt"}] :
          ScheduledRun(weekday, calendar, outcome)
    \/ \E cause \in {"ImportError", "KeyboardInterrupt"} : StopSchedule(cause)

\* the job starts with no run made; the engine is not called
SpecCron == Started({EmptyFrame}) /\ [][NextCron]_vars

(***************************************************************************)
(* Properties                                                              *)
(***************************************************************************)
\* C1: for every input frame that has the columns open, high, low, close and
\* volume, whatever its length, calculate_all_indicators returns a frame of
\* the same rows: the call succeeds, every column of the result (the added
\* ones included) holds one value per input row, and the input's columns are
\* in the result with their values unchanged.
C1_RowsPreserved ==
    (op = "calculate_all_indicators" /\ OHLCV \subseteq Columns(data)) =>
        /\ exc = "none"
        /\ df.n = data.n
        /\ \A col \in Columns(df) : Len(df.c[col]) = data.n
        /\ \A col \in Columns(data) : col \in Columns(df) /\ df.c[col] = data.c[col]

\* a frame of three rows, shorter than every warm-up window, was enriched:
\* the columns are there, undefined
C1_Witness ==
    /\ op = "calculate_all_indicators"
    /\ exc = "none"
    /\ data.n = 3
    /\ c_MA(60) \in Columns(df)
    /\ IsNaN(Latest(df, c_MA(5)))
    /\ Len(df.c[Col.OBV]) = 3

\* C2: when one of the required columns is absent from the input,
\* calculate_all_indicators raises ValueError before any indicator function
\* is entered, and the caller is left with its frame, not a partly enriched
\* one.
C2_MissingColumnRejected ==
    (op = "calculate_all_indicators" /\ ~(OHLCV \subseteq Columns(data))) =>
        /\ exc = "ValueError"
        /\ calls = <<>>
        /\ df = data

\* a frame of some rows that lacks only the volume column was rejected
C2_Witness ==
    /\ op = "calculate_all_indicators"
    /\ Columns(data) = OHLCV \ {Col.volume}
    /\ data.n > 0
    /\ exc = "ValueError"
    /\ calls = <<>>

\* C3: on the frame the provider returns on failure, pd.DataFrame(), none of
\* calculate_all_indicators, get_latest_signals,
\* calculate_support_resistance and calculate_trend_strength raises.
C3_EmptyFrameNeverRaises ==
    (data = EmptyFrame /\ op # "none") => exc = "none"

\* C4: get_latest_signals never raises, returns the empty mapping for an
\* empty frame, and has no entry for an indicator whose columns are absent
\* from the frame: no RSI entries without the RSI column, no MACD entries
\* without both MACD columns, no MA_TREND without moving-average columns
\* MA<window>, no BOLLINGER without both band columns, no KDJ entries
\* without J.
C4_AbsentColumnsOmitted ==
    op = "get_latest_signals" =>
        /\ exc = "none"
        /\ Empty(df) => signals = NoSignals
        /\ Col.RSI \notin Columns(df) =>
              {"RSI", "RSI_VALUE"} \cap DOMAIN signals = {}
        /\ ~({Col.MACD, Col.MACD_Signal} \subseteq Columns(df)) =>
              {"MACD", "MACD_VALUE", "MACD_SIGNAL"} \cap DOMAIN signals = {}
        /\ (\A col \in Columns(df) :
                ~(/\ StartsWith(col, <<"M", "A">>)
                  /\ Len(col) > 2
                  /\ \A i \in 3..Len(col) : col[i] \in {Alphabet[d] : d \in 1..10})) =>
              "MA_TREND" \notin DOMAIN signals
        /\ ~({Col.BOLL_UPPER, Col.BOLL_LOWER} \subseteq Columns(df)) =>
              "BOLLINGER" \notin DOMAIN signals
        /\ Col.J \notin Columns(df) => {"KDJ", "KDJ_J"} \cap DOMAIN signals = {}

\* C5: when the value of an indicator is undefined in the last row,
\* get_latest_signals has no entry for that indicator; in particular the
\* summary of an enriched series of fewer than 15 rows has neither RSI nor
\* RSI_VALUE.
C5_UndefinedOmitted ==
    (op = "get_latest_signals" /\ exc = "none" /\ ~Empty(df)) =>
        /\ (Col.RSI \in Columns(df) /\ (IsNaN(Latest(df, Col.RSI)) \/ df.n < Default.rsi_period + 1)) =>
              {"RSI", "RSI_VALUE"} \cap DOMAIN signals = {}
        /\ (Col.J \in Columns(df) /\ IsNaN(Latest(df, Col.J))) =>
              {"KDJ", "KDJ_J"} \cap DOMAIN signals = {}
        /\ ({Col.BOLL_UPPER, Col.BOLL_LOWER} \subseteq Columns(df)
              /\ IsNaN(Latest(df, Col.BOLL_UPPER))) =>
              "BOLLINGER" \notin DOMAIN signals

\* C6: calculate_rsi gives exactly 100 at every row whose window of period
\* deltas is complete and holds no loss (no close below the close before it),
\* the window in which the close never changes included.
C6_ZeroLossIsHundred ==
    (op = "calculate_rsi" /\ exc = "none") =>
        \A i \in 1..df.n :
            (/\ i > args[1]
             /\ \A j \in (i - args[1] + 1)..i :
                    ~FLt(data.c[Col.close][j], data.c[Col.close][j - 1]))
            => df.c[Col.RSI][i] = Fl(100)

\* C7: for a series enriched by calculate_all_indicators that is long enough
\* for RSI and KDJ to be past their warm-up, get_latest_signals does not
\* raise and the values it reports as RSI_VALUE and KDJ_J are not NaN.
C7_SummaryValuesDefined ==
    (/\ op = "get_latest_signals"
     /\ {Col.RSI, Col.J} \subseteq Columns(df)
     /\ df.n > Default.rsi_period) =>
        /\ exc = "none"
        /\ ~IsNaN(signals["RSI_VALUE"])
        /\ ~IsNaN(signals["KDJ_J"])

\* C8: every value of the RSI column calculate_rsi produces is undefined
\* (NaN) or a finite number between 0 and 100, both included.
C8_RsiBounds ==
    (op = "calculate_rsi" /\ exc = "none") =>
        \A i \in 1..df.n :
            \/ IsNaN(df.c[Col.RSI][i])
            \/ /\ IsFin(df.c[Col.RSI][i])
               /\ ~FLt(df.c[Col.RSI][i], Fl(0))
               /\ ~FGt(df.c[Col.RSI][i], Fl(100))

\* an RSI strictly between the bounds was produced, and one at a bound
C8_Witness ==
    /\ op = "calculate_rsi"
    /\ exc = "none"
    /\ \E i \in 1..df.n :
          FGt(df.c[Col.RSI][i], Fl(0)) /\ FLt(df.c[Col.RSI][i], Fl(100))
    /\ \E i \in 1..df.n : df.c[Col.RSI][i] = Fl(100)

\* C9: for every window w passed to calculate_ma, column MA<w> is undefined
\* at exactly the rows before row w-1 and at every later row is the mean of
\* the w closes that end at the row (w times the value is their sum); the
\* closes 10, 11, 12, 13, 14 with w = 3 give undefined, undefined, 11, 12, 13.
C9_MovingAverage ==
    (op = "calculate_ma" /\ exc = "none") =>
        /\ \A k \in 1..Len(args[1]) :
              \A i \in 1..data.n :
                 IF i < args[1][k]
                 THEN IsNaN(df.c[c_MA(args[1][k])][i])
                 ELSE /\ IsFin(df.c[c_MA(args[1][k])][i])
                      /\ FMul(df.c[c_MA(args[1][k])][i], Fl(args[1][k]))
                           = FSum(SubSeq(AsSeries(data.c[Col.close]), i - args[1][k] + 1, i))
        /\ (args = << <<3>> >> /\ AsSeries(data.c[Col.close])
                                  = <<Fl(10), Fl(11), Fl(12), Fl(13), Fl(14)>>) =>
              df.c[c_MA(3)] = <<NaN, NaN, Fl(11), Fl(12), Fl(13)>>

\* the example: MA3 of the closes 10, 11, 12, 13, 14
C9_Witness ==
    /\ op = "calculate_ma"
    /\ exc = "none"
    /\ args = << <<3>> >>
    /\ AsSeries(data.c[Col.close]) = <<Fl(10), Fl(11), Fl(12), Fl(13), Fl(14)>>
    /\ df.c[c_MA(3)][2] = NaN
    /\ df.c[c_MA(3)][3] = Fl(11)

\* C10: for every span s passed to calculate_ema, column EMA<s> is defined
\* at every row, its first value is the first close, and each later value is
\* a*close[i] + (1-a)*EMA[i-1] with a = 2/(s+1); the closes 10, 12 with
\* span 2 give 10, 34/3.
C10_EmaRecursion ==
    (op = "calculate_ema" /\ exc = "none") =>
        /\ \A k \in 1..Len(args[1]) :
              /\ Len(df.c[c_EMA(args[1][k])]) = data.n
              /\ \A i \in 1..data.n :
                    /\ IsFin(df.c[c_EMA(args[1][k])][i])
                    /\ df.c[c_EMA(args[1][k])][i] =
                          IF i = 1 THEN data.c[Col.close][1]
                          ELSE FAdd(FMul(SpanAlpha(args[1][k]), data.c[Col.close][i]),
                                    FMul(FSub(Fl(1), SpanAlpha(args[1][k])),
                                         df.c[c_EMA(args[1][k])][i - 1]))
        /\ (args = << <<2>> >> /\ AsSeries(data.c[Col.close]) = <<Fl(10), Fl(12)>>) =>
              df.c[c_EMA(2)] = <<Fl(10), FlQ(34, 3)>>

\* the example: EMA2 of the closes 10, 12
C10_Witness ==
    /\ op = "calculate_ema"
    /\ exc = "none"
    /\ args = << <<2>> >>
    /\ AsSeries(data.c[Col.close]) = <<Fl(10), Fl(12)>>
    /\ df.c[c_EMA(2)][2] = FlQ(34, 3)

\* C11: on a frame of one or more rows calculate_macd gives, at every row,
\* three defined values: MACD is the fast EMA of close minus the slow EMA of
\* close, MACD_Signal is the recursive EMA of the MACD column (its first
\* value the first MACD, then a*MACD[i] + (1-a)*Signal[i-1] with
\* a = 2/(signal+1)), and MACD_Histogram is MACD minus MACD_Signal.
C11_MacdColumns ==
    (op = "calculate_macd" /\ exc = "none") =>
        \A i \in 1..data.n :
            /\ IsFin(df.c[Col.MACD][i])
            /\ IsFin(df.c[Col.MACD_Signal][i])
            /\ IsFin(df.c[Col.MACD_Histogram][i])
            /\ df.c[Col.MACD][i] =
                  FSub(ewm_mean(data.c[Col.close], SpanAlpha(args[1]), FALSE)[i],
                       ewm_mean(data.c[Col.close], SpanAlpha(args[2]), FALSE)[i])
            /\ df.c[Col.MACD_Signal][i] =
                  IF i = 1 THEN df.c[Col.MACD][1]
                  ELSE FAdd(FMul(SpanAlpha(args[3]), df.c[Col.MACD][i]),
                            FMul(FSub(Fl(1), SpanAlpha(args[3])),
                                 df.c[Col.MACD_Signal][i - 1]))
            /\ df.c[Col.MACD_Histogram][i] =
                  FSub(df.c[Col.MACD][i], df.c[Col.MACD_Signal][i])

\* the MACD columns of a frame of several rows, with a histogram that is
\* not zero and a MACD that is not zero
C11_Witness ==
    /\ op = "calculate_macd"
    /\ exc = "none"
    /\ data.n > 2
    /\ \E i \in 1..data.n :
          /\ FSgn(df.c[Col.MACD_Histogram][i]) # 0
          /\ FSgn(df.c[Col.MACD][i]) # 0
          /\ df.c[Col.MACD_Signal][i] # df.c[Col.MACD][i]

\* C12: calculate_bollinger with period 20 and a multiplier that is not
\* negative leaves the band columns undefined at exactly the first 19 rows;
\* at every later row BOLL_LOWER <= BOLL_MID <= BOLL_UPPER, BOLL_MID is the
\* mean of the last 20 closes (20 times it is their sum), and
\* BOLL_UPPER - BOLL_MID = BOLL_MID - BOLL_LOWER = multiplier * s, where s,
\* the BOLL_STD column, is the sample standard deviation of the same 20
\* closes: s >= 0 and 19 * s^2 is the sum of their squared deviations from
\* BOLL_MID.
C12_BollingerBands ==
    (op = "calculate_bollinger" /\ exc = "none" /\ args[1] = 20) =>
        \A i \in 1..data.n :
            IF i < 20
            THEN IsNaN(df.c[Col.BOLL_UPPER][i]) /\ IsNaN(df.c[Col.BOLL_LOWER][i])
            ELSE /\ IsFin(df.c[Col.BOLL_UPPER][i])
                 /\ IsFin(df.c[Col.BOLL_LOWER][i])
                 /\ IsFin(df.c[Col.BOLL_MID][i])
                 /\ ~FGt(df.c[Col.BOLL_LOWER][i], df.c[Col.BOLL_MID][i])
                 /\ ~FGt(df.c[Col.BOLL_MID][i], df.c[Col.BOLL_UPPER][i])
                 /\ FMul(df.c[Col.BOLL_MID][i], Fl(20))
                       = FSum(SubSeq(AsSeries(data.c[Col.close]), i - 19, i))
                 /\ FSgn(df.c[Col.BOLL_STD][i]) >= 0
                 /\ FMul(FMul(df.c[Col.BOLL_STD][i], df.c[Col.BOLL_STD][i]), Fl(19))
                       = FSum(SqDevs(SubSeq(AsSeries(data.c[Col.close]), i - 19, i),
                                     df.c[Col.BOLL_MID][i]))
                 /\ FSub(df.c[Col.BOLL_UPPER][i], df.c[Col.BOLL_MID][i])
                       = FMul(args[2], df.c[Col.BOLL_STD][i])
                 /\ FSub(df.c[Col.BOLL_MID][i], df.c[Col.BOLL_LOWER][i])
                       = FMul(args[2], df.c[Col.BOLL_STD][i])

\* bands of 21 rows with the multiplier 2: undefined at row 18, and at the
\* last row the upper band strictly above the mid line
C12_Witness ==
    /\ op = "calculate_bollinger"
    /\ exc = "none"
    /\ args = <<20, Fl(2)>>
    /\ data.n = 21
    /\ IsNaN(df.c[Col.BOLL_UPPER][19])
    /\ FGt(df.c[Col.BOLL_UPPER][21], df.c[Col.BOLL_MID][21])
    /\ FLt(df.c[Col.BOLL_LOWER][21], df.c[Col.BOLL_MID][21])

\* C13: the OBV column of calculate_obv is a running total over the whole
\* series: 0 at the first row, and at every later row the previous OBV plus
\* the row's volume when the close rose, minus it when the close fell, and
\* the previous OBV unchanged when the close is the same.
C13_ObvAccumulates ==
    (op = "calculate_obv" /\ exc = "none") =>
        /\ Len(df.c[Col.OBV]) = data.n
        /\ \A i \in 1..data.n :
              df.c[Col.OBV][i] =
                 IF i = 1 THEN Fl(0)
                 ELSE IF FGt(data.c[Col.close][i], data.c[Col.close][i - 1])
                      THEN FAdd(df.c[Col.OBV][i - 1], data.c[Col.volume][i])
                 ELSE IF FLt(data.c[Col.close][i], data.c[Col.close][i - 1])
                      THEN FSub(df.c[Col.OBV][i - 1], data.c[Col.volume][i])
                 ELSE df.c[Col.OBV][i - 1]

\* a series with a rise, then a fall, then an unchanged close: the total
\* went up, came down and stayed
C13_Witness ==
    /\ op = "calculate_obv"
    /\ exc = "none"
    /\ data.n = 4
    /\ FGt(df.c[Col.OBV][2], Fl(0))
    /\ FLt(df.c[Col.OBV][3], df.c[Col.OBV][2])
    /\ df.c[Col.OBV][4] = df.c[Col.OBV][3]

\* C14, as stated: the closes 10, 11, 10, 10, 12 with the volumes 100, 200,
\* 150, 150, 300 give the OBV column 0, 200, -150, -150, 150.
C14_ObvExampleAsStated ==
    (/\ op = "calculate_obv"
     /\ exc = "none"
     /\ AsSeries(data.c[Col.close]) = <<Fl(10), Fl(11), Fl(10), Fl(10), Fl(12)>>
     /\ AsSeries(data.c[Col.volume]) = <<Fl(100), Fl(200), Fl(150), Fl(150), Fl(300)>>) =>
        AsSeries(df.c[Col.OBV]) = <<Fl(0), Fl(200), Fl(-150), Fl(-150), Fl(150)>>

\* C14, amended: the closes 10, 11, 10, 10, 12 with the volumes 100, 200,
\* 150, 150, 300 give the OBV column 0, 200, 50, 50, 350.
C14_ObvExample ==
    (/\ op = "calculate_obv"
     /\ exc = "none"
     /\ AsSeries(data.c[Col.close]) = <<Fl(10), Fl(11), Fl(10), Fl(10), Fl(12)>>
     /\ AsSeries(data.c[Col.volume]) = <<Fl(100), Fl(200), Fl(150), Fl(150), Fl(300)>>) =>
        AsSeries(df.c[Col.OBV]) = <<Fl(0), Fl(200), Fl(50), Fl(50), Fl(350)>>

\* the example was computed
C14_Witness ==
    /\ op = "calculate_obv"
    /\ exc = "none"
    /\ AsSeries(data.c[Col.close]) = <<Fl(10), Fl(11), Fl(10), Fl(10), Fl(12)>>
    /\ AsSeries(data.c[Col.volume]) = <<Fl(100), Fl(200), Fl(150), Fl(150), Fl(300)>>
    /\ df.c[Col.OBV][5] = Fl(350)

C16_TrendMinimum ==
    op = "calculate_trend_strength" =>
        /\ df.n < 20 => (exc = "none" /\ trend = "insufficient data")
        /\ (df.n >= 20 /\ exc = "none") =>
              trend \in {"strong uptrend", "mild uptrend", "strong downtrend",
                         "mild downtrend", "range-bound"}

\* a frame of exactly 20 rows was classified
C16_Witness ==
    /\ op = "calculate_trend_strength"
    /\ exc = "none"
    /\ df.n = 20
    /\ trend = "strong uptrend"

C18_RsiWarmUp ==
    (op = "calculate_rsi" /\ exc = "none") =>
        \A i \in 1..data.n : i <= args[1] => IsNaN(df.c[Col.RSI][i])

\* C19: with period p, the true range of row 0 is undefined, so the ATR
\* column of calculate_atr is undefined at rows 0..p-1 (elements 1..p here)
\* and from row p on is the mean of the p true ranges that end at the row
\* (p times the value is their sum), the true range of a row being the
\* largest of high - low, |high - previous close| and |low - previous close|.
C19_AtrWarmUp ==
    (op = "calculate_atr" /\ exc = "none") =>
        \A i \in 1..data.n :
            IF i <= args[1]
            THEN IsNaN(df.c[Col.ATR][i])
            ELSE FMul(df.c[Col.ATR][i], Fl(args[1])) =
                    FSum([j \in 1..args[1] |->
                            FMax(<< FSub(data.c[Col.high][i - args[1] + j],
                                         data.c[Col.low][i - args[1] + j]),
                                    FAbs(FSub(data.c[Col.high][i - args[1] + j],
                                              data.c[Col.close][i - args[1] + j - 1])),
                                    FAbs(FSub(data.c[Col.low][i - args[1] + j],
                                              data.c[Col.close][i - args[1] + j - 1])) >>)])

\* C20: with look-back n and smoothings m1, m2, the K, D and J columns of
\* calculate_kdj are undefined before row n-1 (element n here); at that row
\* K is RSV and D is K, where RSV = (close - LL) / (HH - LL) * 100 with LL
\* and HH the lowest low and the highest high of the last n rows; at every
\* later row whose range HH - LL is not zero,
\* K = (1/m1)*RSV + (1 - 1/m1)*(previous K) and
\* D = (1/m2)*K + (1 - 1/m2)*(previous D), each started from the first
\* defined value (K is RSV while the previous K is undefined, D is K while
\* the previous D is undefined); and from row n-1 on J = 3*K - 2*D, not
\* clamped.
C20_KdjRecursion ==
    (op = "calculate_kdj" /\ exc = "none") =>
        LET n == args[1]
            a1 == FlQ(1, args[2])
            a2 == FlQ(1, args[3])
            LL(i) == FMin(SubSeq(AsSeries(data.c[Col.low]), i - n + 1, i))
            HH(i) == FMax(SubSeq(AsSeries(data.c[Col.high]), i - n + 1, i))
            RSV(i) == FMul(FDiv(FSub(data.c[Col.close][i], LL(i)),
                                FSub(HH(i), LL(i))), Fl(100))
        IN  \A i \in 1..data.n :
               /\ i < n => /\ IsNaN(df.c[Col.K][i])
                           /\ IsNaN(df.c[Col.D][i])
                           /\ IsNaN(df.c[Col.J][i])
               /\ i = n => /\ df.c[Col.K][i] = RSV(i)
                           /\ df.c[Col.D][i] = df.c[Col.K][i]
               /\ (i > n /\ FSgn(FSub(HH(i), LL(i))) # 0) =>
                     /\ df.c[Col.K][i] =
                           IF IsNaN(df.c[Col.K][i - 1]) THEN RSV(i)
                           ELSE FAdd(FMul(a1, RSV(i)),
                                     FMul(FSub(Fl(1), a1), df.c[Col.K][i - 1]))
                     /\ df.c[Col.D][i] =
                           IF IsNaN(df.c[Col.D][i - 1]) THEN df.c[Col.K][i]
                           ELSE FAdd(FMul(a2, df.c[Col.K][i]),
                                     FMul(FSub(Fl(1), a2), df.c[Col.D][i - 1]))
               /\ i >= n =>
                     df.c[Col.J][i] = FSub(FMul(Fl(3), df.c[Col.K][i]),
                                          FMul(Fl(2), df.c[Col.D][i]))

\* C21: when the frame has the columns MACD and MACD_Signal, the MACD entry
\* of get_latest_signals is "bullish" exactly when the last-row MACD is
\* strictly above the last-row MACD_Signal, and "bearish" in every other
\* case, the tie included; there is no third label.
C21_MacdLabel ==
    (/\ op = "get_latest_signals"
     /\ exc = "none"
     /\ ~Empty(df)
     /\ {Col.MACD, Col.MACD_Signal} \subseteq Columns(df)) =>
        /\ "MACD" \in DOMAIN signals
        /\ signals["MACD"] \in {"bullish", "bearish"}
        /\ signals["MACD"] = "bullish" <=>
              FSgn(FSub(Latest(df, Col.MACD), Latest(df, Col.MACD_Signal))) > 0

\* the summary of a frame whose last-row MACD equals its signal line, both
\* not zero: the tie is labelled bearish
C21_Witness ==
    /\ op = "get_latest_signals"
    /\ exc = "none"
    /\ ~Empty(df)
    /\ {Col.MACD, Col.MACD_Signal} \subseteq Columns(df)
    /\ Latest(df, Col.MACD) = Latest(df, Col.MACD_Signal)
    /\ FSgn(Latest(df, Col.MACD)) # 0
    /\ signals["MACD"] = "bearish"

\* C22: the MA_TREND entry of get_latest_signals is decided from the
\* last-row values v0, v1, v2 of the first three moving-average columns
\* (MA<window>) in ascending order of their names as strings: v0 > v1 > v2
\* gives "bullish alignment", v0 < v1 < v2 gives "bearish alignment", and
\* anything else, any equality included, gives "consolidating"; a frame with
\* fewer than three such columns has no MA_TREND entry.
C22_MaAlignment ==
    (op = "get_latest_signals" /\ exc = "none" /\ ~Empty(df)) =>
        LET sma == {col \in Columns(df) :
                       /\ StartsWith(col, <<"M", "A">>)
                       /\ Len(col) > 2
                       /\ \A i \in 3..Len(col) : col[i] \in {Alphabet[d] : d \in 1..10}}
            v(k) == Latest(df, Sorted(sma)[k])
        IN  IF Cardinality(sma) < 3 THEN "MA_TREND" \notin DOMAIN signals
            ELSE /\ "MA_TREND" \in DOMAIN signals
                 /\ signals["MA_TREND"] =
                       IF FSgn(FSub(v(1), v(2))) > 0 /\ FSgn(FSub(v(2), v(3))) > 0
                            /\ ~IsNaN(v(1)) /\ ~IsNaN(v(2)) /\ ~IsNaN(v(3))
                       THEN "bullish alignment"
                       ELSE IF FSgn(FSub(v(1), v(2))) < 0 /\ FSgn(FSub(v(2), v(3))) < 0
                            /\ ~IsNaN(v(1)) /\ ~IsNaN(v(2)) /\ ~IsNaN(v(3))
                       THEN "bearish alignment"
                       ELSE "consolidating"

\* C23: on a frame enriched by calculate_all_indicators, whose moving
\* averages have the default windows 5, 10, 20, 60, the three columns the
\* alignment compares are MA5, MA10, MA20 in that order: MA_TREND is
\* "bullish alignment" exactly when MA5 > MA10 > MA20 in the last row.
C23_DefaultWindowsSortCorrectly ==
    (/\ op = "get_latest_signals"
     /\ exc = "none"
     /\ ~Empty(df)
     /\ {c_MA(5), c_MA(10), c_MA(20), c_MA(60)} \subseteq Columns(df)) =>
        /\ "MA_TREND" \in DOMAIN signals
        /\ signals["MA_TREND"] = "bullish alignment" <=>
              /\ FGt(Latest(df, c_MA(5)), Latest(df, c_MA(10)))
              /\ FGt(Latest(df, c_MA(10)), Latest(df, c_MA(20)))

\* C24: when BOLL_UPPER and BOLL_LOWER are defined in the last row,
\* get_latest_signals has one BOLLINGER label: "broke above upper" iff
\* close > upper; "broke below lower" iff close < lower; and for
\* lower <= close <= upper, with pct = (close - lower)/(upper - lower),
\* "near upper" iff pct > 0.8, "near lower" iff pct < 0.2 and "near midline"
\* iff 0.2 <= pct <= 0.8, the bands of no width (upper = lower) included.
C24_BollingerLabel ==
    (/\ op = "get_latest_signals"
     /\ exc = "none"
     /\ ~Empty(df)
     /\ {Col.BOLL_UPPER, Col.BOLL_LOWER, Col.close} \subseteq Columns(df)
     /\ IsFin(Latest(df, Col.BOLL_UPPER))
     /\ IsFin(Latest(df, Col.BOLL_LOWER))) =>
        LET close == Latest(df, Col.close)
            upper == Latest(df, Col.BOLL_UPPER)
            lower == Latest(df, Col.BOLL_LOWER)
            pct == FDiv(FSub(close, lower), FSub(upper, lower))
        IN  /\ "BOLLINGER" \in DOMAIN signals
            /\ signals["BOLLINGER"] = "broke above upper" <=> FGt(close, upper)
            /\ signals["BOLLINGER"] = "broke below lower" <=> FLt(close, lower)
            /\ (~FGt(close, upper) /\ ~FLt(close, lower)) =>
                  /\ signals["BOLLINGER"] = "near upper" <=> FGt(pct, FlQ(8, 10))
                  /\ signals["BOLLINGER"] = "near lower" <=> FLt(pct, FlQ(2, 10))
                  /\ signals["BOLLINGER"] = "near midline" <=>
                        /\ ~IsNaN(pct)
                        /\ ~FLt(pct, FlQ(2, 10))
                        /\ ~FGt(pct, FlQ(8, 10))

C26_ShortSeriesNotAnError ==
    (op = "calculate_all_indicators" /\ OHLCV \subseteq Columns(data) /\ data.n >= 1) =>
        /\ exc = "none"
        /\ {c_MA(5), c_MA(10), c_MA(20), c_MA(60), c_EMA(5), c_EMA(12), c_EMA(26),
            Col.RSI, Col.MACD, Col.MACD_Signal, Col.MACD_Histogram,
            Col.BOLL_MID, Col.BOLL_STD, Col.BOLL_UPPER, Col.BOLL_LOWER,
            Col.BOLL_WIDTH, Col.K, Col.D, Col.J,
            c_VOL_MA(5), c_VOL_MA(10), c_VOL_MA(20), Col.ATR, Col.OBV}
              \subseteq Columns(df)
        /\ \A i \in 1..data.n :
              /\ \A w \in {5, 10, 20, 60} : i < w => IsNaN(df.c[c_MA(w)][i])
              /\ \A w \in {5, 10, 20} : i < w => IsNaN(df.c[c_VOL_MA(w)][i])
              /\ i < 20 => \A col \in {Col.BOLL_MID, Col.BOLL_STD, Col.BOLL_UPPER,
                                       Col.BOLL_LOWER, Col.BOLL_WIDTH} :
                              IsNaN(df.c[col][i])
              /\ i < 9 => \A col \in {Col.K, Col.D, Col.J} : IsNaN(df.c[col][i])
              /\ i <= 14 => IsNaN(df.c[Col.RSI][i]) /\ IsNaN(df.c[Col.ATR][i])
        /\ \A k \in 1..Len(indicator_steps) :
              LET alone == CallDefault(indicator_steps[k], data)
              IN  /\ alone.exc = "none"
                  /\ \A col \in Columns(alone.val) \ Columns(data) :
                        df.c[col] = alone.val.c[col]

\* C27: MA_TREND is computed from moving-average columns MA<window> only.
\* The columns MACD, MACD_Signal and MACD_Histogram, whose names begin with
\* "MA" too, do not count towards the three columns the entry needs (the
\* entry is there exactly when the frame has three or more MA<window>
\* columns) and are never among the three columns compared, whatever
\* columns the frame has.
C27_OnlyMovingAverages ==
    (op = "get_latest_signals" /\ exc = "none" /\ ~Empty(df)) =>
        /\ "MA_TREND" \in DOMAIN signals <=>
              Cardinality({col \in Columns(df) :
                              /\ StartsWith(col, <<"M", "A">>)
                              /\ Len(col) > 2
                              /\ \A i \in 3..Len(col) :
                                    col[i] \in {Alphabet[d] : d \in 1..10}}) >= 3
        /\ Cardinality(ma_cols(df)) >= 3 =>
              \A k \in 1..3 :
                 Sorted(ma_cols(df))[k] \notin {Col.MACD, Col.MACD_Signal, Col.MACD_Histogram}

\* C28: no indicator looks ahead.  For the series S that the session's
\* first call of calculate_all_indicators enriched and every k up to its
\* length, the enrichment of the first k rows of S alone succeeds and gives, in every
\* column, the first k rows of the enrichment of S, value for value and
\* undefined for undefined: the bars after row k have no part in the
\* indicator values of the rows up to k.
C28_NoLookAhead ==
    (op = "calculate_all_indicators" /\ exc = "none"
        /\ args = <<"TechnicalAnalyzer">>) =>
        \A k \in 0..data.n :
            LET P == [n |-> k,
                      c |-> [name \in Columns(data) |->
                                SubSeq(AsSeries(data.c[name]), 1, k)]]
                r == calculate_all_indicators(P)
            IN  /\ r.exc = "none"
                /\ Columns(r.val) = Columns(df)
                /\ \A col \in Columns(df) :
                      AsSeries(r.val.c[col]) = SubSeq(AsSeries(df.c[col]), 1, k)

\* the enrichment of a series of 21 rows that ends with a move after flat
\* days, whose last row has defined Bollinger bands and a defined J, and
\* whose row before has a defined mid line and no J (no trading range)
C28_Witness ==
    /\ op = "calculate_all_indicators"
    /\ exc = "none"
    /\ args = <<"TechnicalAnalyzer">>
    /\ data.n = 21
    /\ IsFin(df.c[Col.BOLL_UPPER][21])
    /\ IsFin(df.c[Col.J][21])
    /\ IsFin(df.c[Col.BOLL_MID][20])
    /\ IsNaN(df.c[Col.J][20])
    /\ df.c[Col.BOLL_MID][21] # df.c[Col.BOLL_MID][20]

\* C29: run_daily_report gates on the trading-day check.  A run without
\* force on a day that is_trading_day rejects (a Saturday or Sunday, or a
\* weekday the calendar does not list) returns False with no step entered:
\* the generator is not constructed and nothing is fetched, generated or
\* saved.  A run with force does not call is_trading_day and enters the
\* first step.  On a Saturday or Sunday is_trading_day answers without
\* asking the trading calendar.
C29_TradingDayGate ==
    cron.runs > 0 =>
        /\ (~cron.force /\ (cron.weekday >= 5 \/ cron.calendar = "unlisted")) =>
              /\ cron.last.ret = "False"
              /\ cron.last.steps = <<>>
              /\ cron.last.raised = "none"
        /\ cron.force =>
              /\ ~cron.last.checked
              /\ ~cron.last.consulted
              /\ cron.last.steps # <<>>
              /\ cron.last.steps[1] = "ReportGenerator"
        /\ (~cron.force /\ cron.weekday >= 5) =>
              /\ cron.last.checked
              /\ ~cron.last.consulted

\* a run without force on a Saturday for which the calendar, had it been
\* asked, lists a trading day: nothing was run
C29_Witness ==
    /\ cron.mode = "run_once"
    /\ ~cron.force
    /\ cron.weekday = 5
    /\ cron.calendar = "listed"
    /\ cron.outcome = <<"ok", "ok", "ok", "ok">>
    /\ cron.last.ret = "False"
    /\ cron.last.steps = <<>>

\* C30: in every run of run_daily_report the steps entered are, in order
\* and each at most once, the construction of the generator,
\* fetch_all_data, generate_report and save_report, up to the first that
\* does not return.  The run returns True only if all of them returned.
\* When a step raises an exception (of a class derived from Exception) no
\* later step is entered, nothing is raised to the caller and the run
\* returns False; the scheduling loop is then still running and waits for
\* the next scheduled time.
C30_StepsInOrder ==
    [][cron'.runs # cron.runs =>
        /\ \E k \in 0..4 :
              cron'.last.steps =
                 SubSeq(<<"ReportGenerator", "fetch_all_data", "generate_report",
                          "save_report">>, 1, k)
        /\ cron'.last.ret = "True" =>
              /\ Len(cron'.last.steps) = 4
              /\ \A i \in 1..4 : cron'.outcome[i] = "ok"
        /\ \A i \in 1..Len(cron'.last.steps) :
              /\ i < Len(cron'.last.steps) => cron'.outcome[i] = "ok"
              /\ cron'.outcome[i] = "Exception" =>
                    /\ Len(cron'.last.steps) = i
                    /\ cron'.last.raised = "none"
                    /\ cron'.last.ret = "False"
                    /\ cron'.mode = "schedule" => cron'.loop = "waiting"]_vars

\* the second run of the scheduling loop, made after a run that failed:
\* the loop went on, and this run failed in fetch_all_data and returned
\* False
C30_Witness ==
    /\ cron.mode = "schedule"
    /\ cron.runs = 2
    /\ cron.log = <<"failed", "failed">>
    /\ cron.loop = "waiting"
    /\ cron.outcome[2] = "Exception"
    /\ cron.last.steps = <<"ReportGenerator", "fetch_all_data">>
    /\ cron.last.ret = "False"

====
